---------------------------- MODULE Spec2Model ----------------------------
(***************************************************************************)
(* Model of utils/help.py: the paginators, the selectors, the HelpView     *)
(* with its button callbacks, and the KuriHelp entry points.               *)
(*                                                                         *)
(* Coroutines are modelled with their suspension points: a callback runs   *)
(* atomically up to an await of an HTTP request (defer, edit, send), the   *)
(* request is then in flight, and the coroutine resumes in a later step.   *)
(* The message as Discord holds it (what users see and can click) is       *)
(* separate from the view object's state.                                  *)
(***************************************************************************)
EXTENDS Integers, Sequences, FiniteSets, Bags, TLC

VARIABLES
    request,    \* the help request: entry point and the filtered command lists
    phase,      \* "start", "sending", "live" or "failed" (entry point position)
    paginator,  \* HelpView.paginator
    buttons,    \* disabled flag of first_page, prev_page, next_page, last_page
    selectors,  \* the Select items added to the view
    message,    \* the message as Discord holds it: embed and attached view
    stopped,    \* the view's stop future: "pending", "timed_out", "stopped"
    inflight,   \* bag of suspended callbacks (each at an await)
    limit,      \* how many interactions the users keep in flight at once
    rendered,   \* the cursors at which current() was called on this paginator
    ev          \* the step just taken (what ran, for whom, what current() did)

vars == <<request, phase, paginator, buttons, selectors, message, stopped,
          inflight, limit, rendered, ev>>

(***************************************************************************)
(* Program constants                                                       *)
(***************************************************************************)
SELECT_MAX_VALUES == 25
commands_per_page == 8
categories_per_page == 9

(***************************************************************************)
(* Bounds of the model                                                     *)
(***************************************************************************)
MaxCommands == 27       \* commands of the requested category, serial runs
MaxCogs == 21           \* categories of the bot, serial runs
MaxLivePages == 2       \* pages of the requested category, concurrent runs
MaxLiveCogs == 2        \* categories of the bot, concurrent runs
MaxInflight == 2        \* interactions in flight at once, concurrent runs
MaxRun == 2             \* longest run of command names sharing a first letter

(***************************************************************************)
(* Python built-ins used by the code                                       *)
(***************************************************************************)
Max(a, b) == IF a >= b THEN a ELSE b
Min(a, b) == IF a <= b THEN a ELSE b

\* math.ceil(n / d) for n >= 0, d > 0
ceil(n, d) == IF n % d = 0 THEN n \div d ELSE (n \div d) + 1

\* a slice bound as Python normalises it against a length
PyBound(i, n) == IF i < 0 THEN Max(i + n, 0) ELSE Min(i, n)

\* s[a:b] (0-based, half open, clamped, negative bounds from the end)
PySlice(s, a, b) == SubSeq(s, PyBound(a, Len(s)) + 1, PyBound(b, Len(s)))

\* s[i] (0-based, a negative index counts from the end)
PyIndex(i, n) == IF i < 0 THEN i + n ELSE i
PyItem(s, i) == s[PyIndex(i, Len(s)) + 1]

\* len(range(0, stop, step))
RangeLen(stop, step) == IF stop <= 0 THEN 0 ELSE ((stop - 1) \div step) + 1

\* str.upper() on a letter
upper(ch) == [ch EXCEPT !.cap = TRUE]

\* a function with one more entry (dict item assignment)
DictSet(d, k, v) == [i \in DOMAIN d \cup {k} |-> IF i = k THEN v ELSE d[i]]
EmptyDict == [i \in {} |-> 0]

(***************************************************************************)
(* BasePaginator                                                           *)
(***************************************************************************)
BasePaginator(n) == [n_pages |-> n, idx |-> 0, pages |-> EmptyDict]

previous(p) == [p EXCEPT !.idx = Max(p.idx - 1, 0)]

\* faulty variant: next wraps around to the first page
next_wrap(p) == [p EXCEPT !.idx = (p.idx + 1) % Max(p.n_pages, 1)]
next(p) == [p EXCEPT !.idx = Min(p.idx + 1, p.n_pages - 1)]

first(p) == [p EXCEPT !.idx = 0]

last(p) == [p EXCEPT !.idx = p.n_pages - 1]

is_first(p) == p.idx = 0

is_last(p) == p.idx = p.n_pages - 1

(***************************************************************************)
(* Paginators.  One record shape for the three kinds; a field a kind does  *)
(* not have is <<>>.  An embed is its title's page suffix and its fields.  *)
(***************************************************************************)
PageSuffix(p) == IF p.n_pages > 1 THEN <<p.idx + 1, p.n_pages>> ELSE <<>>

CogHelpPaginator(cog, commands) ==
    [kind |-> "cog", owner |-> cog, commands |-> commands, slices |-> <<>>,
     n_pages |-> BasePaginator(ceil(Len(commands), commands_per_page)).n_pages,
     idx |-> BasePaginator(ceil(Len(commands), commands_per_page)).idx,
     pages |-> BasePaginator(ceil(Len(commands), commands_per_page)).pages]

CogHelpPaginator_create_embed(p, commands) ==
    [kind |-> "cog", owner |-> p.owner, suffix |-> PageSuffix(p),
     fields |-> commands]

MainHelpPaginator(mapping) ==
    [kind |-> "main", owner |-> <<>>, commands |-> <<>>,
     slices |-> [j \in 1..RangeLen(Len(mapping), categories_per_page) |->
                    PySlice(mapping, (j - 1) * categories_per_page,
                            (j - 1) * categories_per_page + categories_per_page)],
     n_pages |-> BasePaginator(ceil(Len(mapping), categories_per_page)).n_pages,
     idx |-> BasePaginator(ceil(Len(mapping), categories_per_page)).idx,
     pages |-> BasePaginator(ceil(Len(mapping), categories_per_page)).pages]

\* the fields of a category-index page: name and command count of every
\* category of the slice that has commands
RECURSIVE MainFields(_)
MainFields(mapping) ==
    IF mapping = <<>> THEN <<>>
    ELSE IF Head(mapping).cmds = <<>> THEN MainFields(Tail(mapping))
    ELSE <<[cog |-> Head(mapping).cog, count |-> Len(Head(mapping).cmds)]>>
            \o MainFields(Tail(mapping))

MainHelpPaginator_create_embed(p, mapping) ==
    [kind |-> "main", owner |-> <<>>, suffix |-> PageSuffix(p),
     fields |-> MainFields(mapping)]

CommandHelpPaginator(command) ==
    [kind |-> "cmd", owner |-> <<>>, commands |-> <<command>>, slices |-> <<>>,
     n_pages |-> BasePaginator(1).n_pages, idx |-> BasePaginator(1).idx,
     pages |-> BasePaginator(1).pages]

CommandHelpPaginator_create_embed(p, command) ==
    [kind |-> "cmd", owner |-> <<>>, suffix |-> <<>>, fields |-> <<command>>]

(***************************************************************************)
(* current(): the embed returned, the paginator afterwards (its cache),    *)
(* and whether the embed came from the cache.                              *)
(***************************************************************************)
\* faulty variant: the cache is never consulted, every call builds and stores
CogHelpPaginator_current_rebuild(p) ==
    LET index == p.idx * commands_per_page
        embed == CogHelpPaginator_create_embed(p,
                     PySlice(p.commands, index, index + commands_per_page))
    IN  [embed |-> embed,
         paginator |-> [p EXCEPT !.pages = DictSet(p.pages, p.idx, embed)],
         hit |-> FALSE]

\* faulty variant: the slice starts one command late
CogHelpPaginator_current_shifted(p) ==
    IF p.idx \in DOMAIN p.pages
    THEN [embed |-> p.pages[p.idx], paginator |-> p, hit |-> TRUE]
    ELSE LET index == p.idx * commands_per_page + 1
             embed == CogHelpPaginator_create_embed(p,
                          PySlice(p.commands, index, index + commands_per_page))
         IN  [embed |-> embed,
              paginator |-> [p EXCEPT !.pages = DictSet(p.pages, p.idx, embed)],
              hit |-> FALSE]

CogHelpPaginator_current(p) ==
    IF p.idx \in DOMAIN p.pages
    THEN [embed |-> p.pages[p.idx], paginator |-> p, hit |-> TRUE]
    ELSE LET index == p.idx * commands_per_page
             embed == CogHelpPaginator_create_embed(p,
                          PySlice(p.commands, index, index + commands_per_page))
         IN  [embed |-> embed,
              paginator |-> [p EXCEPT !.pages = DictSet(p.pages, p.idx, embed)],
              hit |-> FALSE]

\* self.slices[self.idx] raises IndexError when there is no such slice
MainHelpPaginator_raises(p) ==
    /\ p.idx \notin DOMAIN p.pages
    /\ PyIndex(p.idx, Len(p.slices)) + 1 \notin DOMAIN p.slices

MainHelpPaginator_current(p) ==
    IF p.idx \in DOMAIN p.pages
    THEN [embed |-> p.pages[p.idx], paginator |-> p, hit |-> TRUE]
    ELSE LET embed == MainHelpPaginator_create_embed(p,
                          PyItem(p.slices, p.idx))
         IN  [embed |-> embed,
              paginator |-> [p EXCEPT !.pages = DictSet(p.pages, p.idx, embed)],
              hit |-> FALSE]

CommandHelpPaginator_current(p) ==
    [embed |-> CommandHelpPaginator_create_embed(p, p.commands[1]),
     paginator |-> p, hit |-> FALSE]

current(p) ==
    CASE p.kind = "cog" -> CogHelpPaginator_current(p)
      [] p.kind = "main" -> MainHelpPaginator_current(p)
      [] p.kind = "cmd" -> CommandHelpPaginator_current(p)

(***************************************************************************)
(* Commands and the inputs of the entry points.  A command is its cog,     *)
(* the first letter of its name and a serial that stands for the rest of   *)
(* the name; filter_commands(sort=True) hands the lists over sorted by     *)
(* name.                                                                   *)
(***************************************************************************)
Command(cog, ch, serial) ==
    [cog |-> cog, first |-> [ch |-> ch, cap |-> FALSE], serial |-> serial]

qualified_name(command) == [first |-> command.first, serial |-> command.serial]

\* n commands of one category, sorted; every run of `run` names shares a letter
SortedCommands(cog, n, run) ==
    [i \in 1..n |-> Command(cog, (i - 1) \div run, i)]

\* the bot's mapping after filter_commands: m categories in order, then the
\* commands without a category (key None, written <<>>); with gap > 0 every
\* gap-th category has no visible command; the first category is a large one
BotMapping(m, gap) ==
    [i \in 1..(m + 1) |->
        IF i = m + 1 THEN [cog |-> <<>>, cmds |-> SortedCommands(<<>>, 1, 1)]
        ELSE [cog |-> <<"cog", i>>,
              cmds |-> SortedCommands(<<"cog", i>>,
                          IF gap > 0 /\ i % gap = 0 THEN 0
                          ELSE IF i = 1 THEN commands_per_page + 1 ELSE 1, 1)]]

Gaps == {0, 2, 7}
Runs == 1..MaxRun

\* the least number of commands that fills k pages of a category
CommandsForPages(k) == IF k = 0 THEN 0 ELSE (k - 1) * commands_per_page + 1

Requests(counts, runs, maxCogs) ==
    {[entry |-> e, commands |-> SortedCommands(<<"cog", 1>>, n, r), mapping |-> <<>>] :
        e \in {"cog", "group"}, n \in counts, r \in runs}
    \cup
    {[entry |-> "bot", commands |-> <<>>, mapping |-> BotMapping(m, g)] :
        m \in 0..maxCogs, g \in Gaps}

\* bot.get_command(value): the command of that qualified name
AllCommands ==
    {request.commands[i] : i \in DOMAIN request.commands}
    \cup UNION {{request.mapping[i].cmds[j] : j \in DOMAIN request.mapping[i].cmds} :
                    i \in DOMAIN request.mapping}
get_command(value) == CHOOSE c \in AllCommands : qualified_name(c) = value

(***************************************************************************)
(* Selectors                                                               *)
(***************************************************************************)
MainOption == [main |-> TRUE, value |-> <<>>]
Option(v) == [main |-> FALSE, value |-> <<v>>]

CategorySelect(mapping) ==
    [kind |-> "category", cog |-> <<>>, commands |-> <<>>, mapping |-> mapping,
     suffix |-> <<>>]

CommandSelect(cog, commands, suffix) ==
    [kind |-> "command", cog |-> cog, commands |-> commands, mapping |-> <<>>,
     suffix |-> suffix]

RECURSIVE CategoryOptions(_)
CategoryOptions(mapping) ==
    IF mapping = <<>> THEN <<>>
    ELSE IF Head(mapping).cmds = <<>> THEN CategoryOptions(Tail(mapping))
    ELSE <<Option(Head(mapping).cog)>> \o CategoryOptions(Tail(mapping))

CategorySelect_populate(sel) == <<MainOption>> \o CategoryOptions(sel.mapping)

CommandSelect_populate(sel) ==
    <<MainOption>> \o [i \in DOMAIN sel.commands |->
                          Option(qualified_name(sel.commands[i]))]

options(sel) ==
    IF sel.kind = "category" THEN CategorySelect_populate(sel)
    ELSE CommandSelect_populate(sel)

\* self.mapping[cog]
MappingGet(mapping, cog) ==
    (CHOOSE it \in {mapping[i] : i \in DOMAIN mapping} : it.cog = cog).cmds

\* the paginator a selector's callback builds for the chosen option
CategorySelect_paginator(sel, option) ==
    IF option.main THEN MainHelpPaginator(sel.mapping)
    ELSE CogHelpPaginator(option.value[1], MappingGet(sel.mapping, option.value[1]))

CommandSelect_paginator(sel, option) ==
    IF option.main THEN CogHelpPaginator(sel.cog, sel.commands)
    ELSE CommandHelpPaginator(get_command(option.value[1]))

(***************************************************************************)
(* HelpView                                                                *)
(***************************************************************************)
\* the disabled flags the button decorators declare
DefaultButtons ==
    [first_page |-> TRUE, prev_page |-> TRUE, next_page |-> FALSE, last_page |-> FALSE]

reset_buttons ==
    [first_page |-> TRUE, prev_page |-> TRUE, next_page |-> FALSE, last_page |-> FALSE]

disable_buttons ==
    [first_page |-> TRUE, prev_page |-> TRUE, next_page |-> TRUE, last_page |-> TRUE]

HelpView(p) == IF p.n_pages = 1 THEN disable_buttons ELSE DefaultButtons

Author == "author"
Users == {"author", "other"}

\* faulty variant: every user passes the check
interaction_check_open(user) == TRUE
interaction_check(user) == user = Author

\* faulty variant: the buttons are reset as for several pages, whatever n_pages
change_paginator_always_reset(p) == [paginator |-> p, buttons |-> reset_buttons]

\* the synchronous part of change_paginator: the new paginator and buttons
change_paginator(p) ==
    [paginator |-> p,
     buttons |-> IF p.n_pages > 1 THEN reset_buttons ELSE disable_buttons]

\* the synchronous part of the four navigation callbacks
first_page(b, p) ==
    [buttons |-> [first_page |-> TRUE, prev_page |-> TRUE,
                  next_page |-> FALSE, last_page |-> FALSE],
     paginator |-> first(p)]

prev_page(b, p) ==
    LET b1 == [b EXCEPT !.next_page = FALSE, !.last_page = FALSE]
        p1 == previous(p)
    IN  [buttons |-> IF is_first(p1)
                     THEN [b1 EXCEPT !.first_page = TRUE, !.prev_page = TRUE]
                     ELSE b1,
         paginator |-> p1]

next_page(b, p) ==
    LET b1 == [b EXCEPT !.first_page = FALSE, !.prev_page = FALSE]
        p1 == next(p)
    IN  [buttons |-> IF is_last(p1)
                     THEN [b1 EXCEPT !.next_page = TRUE, !.last_page = TRUE]
                     ELSE b1,
         paginator |-> p1]

last_page(b, p) ==
    [buttons |-> [first_page |-> FALSE, prev_page |-> FALSE,
                  next_page |-> TRUE, last_page |-> TRUE],
     paginator |-> last(p)]

(***************************************************************************)
(* KuriHelp entry points: what each builds before it sends the message     *)
(***************************************************************************)
\* faulty variant: nothing is filtered out
f_mapping_unfiltered(mapping) == mapping

\* f_mapping of send_bot_help: the categories (not None) with visible commands
f_mapping(mapping) ==
    SelectSeq(mapping, LAMBDA it : it.cog # <<>> /\ it.cmds # <<>>)

\* the command selectors send_cog_help adds to the view
send_cog_help_selectors(cog, commands) ==
    IF Len(commands) > SELECT_MAX_VALUES
    THEN [k \in 1..RangeLen(Len(commands), SELECT_MAX_VALUES - 1) |->
            LET i == (k - 1) * (SELECT_MAX_VALUES - 1)
            IN  CommandSelect(cog,
                    PySlice(commands, i, i + SELECT_MAX_VALUES - 1),
                    <<upper(PyItem(commands, i).first),
                      upper(PyItem(PySlice(commands, i, i + SELECT_MAX_VALUES - 2),
                                   -1).first)>>)]
    ELSE <<CommandSelect(cog, commands, <<>>)>>

(***************************************************************************)
(* State                                                                   *)
(***************************************************************************)
NoView == [attached |-> FALSE, buttons |-> disable_buttons]
ViewOf(b) == [attached |-> TRUE, buttons |-> b]

NoPaginator == CommandHelpPaginator(Command(<<>>, 0, 0))

\* ev of a step: the callback that ran and for whom; whether a navigation
\* found the cursor at the end it moves towards (edge); whether current()
\* answered from the cache (hit) and whether this paginator had rendered
\* this cursor before (revisit); whether an ephemeral notice was sent
Quiet(act) ==
    [act |-> act, user |-> "-", edge |-> FALSE, hit |-> FALSE, revisit |-> FALSE,
     notice |-> FALSE]

InitWith(requests, n) ==
    /\ request \in requests
    /\ phase = "start"
    /\ paginator = NoPaginator
    /\ buttons = DefaultButtons
    /\ selectors = <<>>
    /\ message = [exists |-> FALSE, embed |-> <<>>, view |-> NoView]
    /\ stopped = "pending"
    /\ inflight = EmptyBag
    /\ limit = n
    /\ rendered = {}
    /\ ev = Quiet("-")

\* several interactions in flight at once, small inputs
Init ==
    InitWith(Requests({CommandsForPages(k) : k \in 0..MaxLivePages}, {1}, MaxLiveCogs),
             MaxInflight)

\* the requester waits for each edit before the next interaction, large inputs
InitSerial == InitWith(Requests(0..MaxCommands, Runs, MaxCogs), 1)

(***************************************************************************)
(* Entry points.  Each builds the view, renders the first page and awaits  *)
(* channel.send; message_sent is the resumption (view.message = msg).      *)
(***************************************************************************)
\* HelpView(paginator, author), add_item(...), view.paginator.current()
Build(p, sels) ==
    /\ phase = "start"
    /\ selectors' = sels
    /\ buttons' = HelpView(p)
    /\ IF p.kind = "main" /\ MainHelpPaginator_raises(p)
       THEN /\ phase' = "failed"
            /\ paginator' = p
            /\ message' = message
            /\ rendered' = {}
            /\ ev' = Quiet("raise")
       ELSE /\ phase' = "sending"
            /\ paginator' = current(p).paginator
            /\ message' = [exists |-> FALSE, embed |-> <<current(p).embed>>,
                           view |-> ViewOf(HelpView(p))]
            /\ rendered' = {p.idx}
            /\ ev' = [Quiet("send") EXCEPT !.hit = current(p).hit]
    /\ UNCHANGED <<request, stopped, inflight, limit>>

send_bot_help ==
    /\ request.entry = "bot"
    /\ Build(MainHelpPaginator(f_mapping(request.mapping)),
             <<CategorySelect(f_mapping(request.mapping))>>)

send_cog_help ==
    /\ request.entry = "cog"
    /\ Build(CogHelpPaginator(<<"cog", 1>>, request.commands),
             send_cog_help_selectors(<<"cog", 1>>, request.commands))

\* the paginator is built for the group, the selector for the group's cog
send_group_help ==
    /\ request.entry = "group"
    /\ Build(CogHelpPaginator(<<"group", 1>>, request.commands),
             <<CommandSelect(<<"cog", 1>>, request.commands, <<>>)>>)

message_sent ==
    /\ phase = "sending"
    /\ phase' = "live"
    /\ message' = [message EXCEPT !.exists = TRUE]
    /\ ev' = Quiet("-")
    /\ UNCHANGED <<request, paginator, buttons, selectors, stopped, inflight,
                   limit, rendered>>

(***************************************************************************)
(* Interactions.  A component of the message as Discord holds it can be    *)
(* used by any user while the view is dispatched (not finished); the       *)
(* library runs interaction_check and then the item's callback as a task.  *)
(***************************************************************************)
Dispatchable ==
    /\ phase = "live"
    /\ stopped = "pending"
    /\ message.view.attached
    /\ BagCardinality(inflight) < limit

Suspended(item, pc, sel, option, embed, view) ==
    [item |-> item, pc |-> pc, sel |-> sel, option |-> option, embed |-> embed,
     view |-> view]

\* interaction_check failed: the ephemeral notice, and the callback never runs
Reject(user) ==
    /\ ev' = [Quiet("-") EXCEPT !.user = user, !.notice = TRUE]
    /\ UNCHANGED <<request, phase, paginator, buttons, selectors, message,
                   stopped, inflight, limit, rendered>>

\* the cursor is already at the end the navigation moves towards
AtEdge(act, p) ==
    IF act \in {"first_page", "prev_page"} THEN is_first(p) ELSE is_last(p)

\* a navigation callback: r is its synchronous result; then
\* interaction.response.edit_message(embed=self.paginator.current(), view=self)
Navigate(user, act, r) ==
    /\ buttons' = r.buttons
    /\ IF r.paginator.kind = "main" /\ MainHelpPaginator_raises(r.paginator)
       THEN /\ paginator' = r.paginator
            /\ inflight' = inflight
            /\ rendered' = rendered
            /\ ev' = [Quiet(act) EXCEPT !.user = user]
       ELSE /\ paginator' = current(r.paginator).paginator
            /\ inflight' = inflight (+) SetToBag({Suspended("nav", "edit", 0, MainOption,
                               <<current(r.paginator).embed>>, ViewOf(r.buttons))})
            /\ rendered' = rendered \cup {r.paginator.idx}
            /\ ev' = [act |-> act, user |-> user, edge |-> AtEdge(act, paginator),
                      hit |-> current(r.paginator).hit,
                      revisit |-> r.paginator.idx \in rendered, notice |-> FALSE]
    /\ UNCHANGED <<request, phase, selectors, message, stopped, limit>>

Press(user, name, r) ==
    /\ Dispatchable
    /\ ~message.view.buttons[name]
    /\ IF interaction_check(user) THEN Navigate(user, name, r) ELSE Reject(user)

press_first_page(user) == Press(user, "first_page", first_page(buttons, paginator))
press_prev_page(user) == Press(user, "prev_page", prev_page(buttons, paginator))
press_next_page(user) == Press(user, "next_page", next_page(buttons, paginator))
press_last_page(user) == Press(user, "last_page", last_page(buttons, paginator))

\* the Exit button: await interaction.response.edit_message(view=None)
remove(user) ==
    /\ Dispatchable
    /\ IF interaction_check(user)
       THEN /\ inflight' = inflight (+) SetToBag({Suspended("remove", "edit", 0,
                                            MainOption, <<>>, NoView)})
            /\ ev' = Quiet("-")
            /\ UNCHANGED <<request, phase, paginator, buttons, selectors, message,
                           stopped, limit, rendered>>
       ELSE Reject(user)

\* the options the modelled users pick: the synthetic one and the last one
Picks(sel) == {options(sel)[i] : i \in {1, Len(options(sel))}}

\* faulty variant: the callback replaces the paginator before it defers
Choose_eager(user, k, option) ==
    /\ Dispatchable
    /\ IF interaction_check(user)
       THEN LET r == change_paginator(
                        IF selectors[k].kind = "category"
                        THEN CategorySelect_paginator(selectors[k], option)
                        ELSE CommandSelect_paginator(selectors[k], option))
            IN  /\ buttons' = r.buttons
                /\ paginator' = current(r.paginator).paginator
                /\ inflight' = inflight (+) SetToBag({Suspended("select", "defer", k,
                                                option, <<>>, NoView)})
                /\ rendered' = {r.paginator.idx}
                /\ ev' = [Quiet("change_paginator") EXCEPT !.user = Author,
                             !.hit = current(r.paginator).hit]
                /\ UNCHANGED <<request, phase, selectors, message, stopped, limit>>
       ELSE Reject(user)

\* a selector choice, up to the callback's await interaction.response.defer()
Choose(user, k, option) ==
    /\ Dispatchable
    /\ IF interaction_check(user)
       THEN /\ inflight' = inflight (+) SetToBag({Suspended("select", "defer", k,
                                            option, <<>>, NoView)})
            /\ ev' = Quiet("-")
            /\ UNCHANGED <<request, phase, paginator, buttons, selectors, message,
                           stopped, limit, rendered>>
       ELSE Reject(user)

\* after the defer: change_paginator(p, interaction) up to its await of
\* interaction.message.edit(embed=self.paginator.current(), view=self)
ChangePaginator(c, p) ==
    /\ c.item = "select" /\ c.pc = "defer"
    /\ LET r == change_paginator(p)
       IN  /\ buttons' = r.buttons
           /\ paginator' = current(r.paginator).paginator
           /\ inflight' = (inflight (-) SetToBag({c})) (+)
                            SetToBag({Suspended("select", "edit", c.sel, c.option,
                                <<current(r.paginator).embed>>, ViewOf(r.buttons))})
           /\ rendered' = {r.paginator.idx}
           /\ ev' = [Quiet("change_paginator") EXCEPT !.user = Author,
                        !.hit = current(r.paginator).hit]
    /\ UNCHANGED <<request, phase, selectors, message, stopped, limit>>

CategorySelect_chosen(user, k, option) ==
    /\ selectors[k].kind = "category"
    /\ Choose(user, k, option)

CategorySelect_callback(c) ==
    /\ selectors[c.sel].kind = "category"
    /\ ChangePaginator(c, CategorySelect_paginator(selectors[c.sel], c.option))

CommandSelect_chosen(user, k, option) ==
    /\ selectors[k].kind = "command"
    /\ Choose(user, k, option)

CommandSelect_callback(c) ==
    /\ selectors[c.sel].kind = "command"
    /\ ChangePaginator(c, CommandSelect_paginator(selectors[c.sel], c.option))

\* an edit request reaches Discord: the message takes the embed (if one was
\* given) and the view; remove goes on to self.stop() (the self.stop() of
\* on_timeout finds the future done and changes nothing)
edit_lands(c) ==
    /\ c.pc = "edit"
    /\ message' = [message EXCEPT !.embed = IF c.embed = <<>> THEN @ ELSE c.embed,
                                  !.view = c.view]
    /\ inflight' = IF c.item = "remove"
                   THEN (inflight (-) SetToBag({c})) (+) SetToBag({[c EXCEPT !.pc = "stop"]})
                   ELSE inflight (-) SetToBag({c})
    /\ ev' = Quiet("-")
    /\ UNCHANGED <<request, phase, paginator, buttons, selectors, stopped, limit,
                   rendered>>

\* faulty variant: stop() sets the future's result again
stop_overwrite(c) ==
    /\ c.pc = "stop"
    /\ stopped' = "stopped"
    /\ inflight' = inflight (-) SetToBag({c})
    /\ ev' = Quiet("stop")
    /\ UNCHANGED <<request, phase, paginator, buttons, selectors, message, limit,
                   rendered>>

\* self.stop() of remove: the future keeps a result it has
stop(c) ==
    /\ c.pc = "stop"
    /\ stopped' = IF stopped = "pending" THEN "stopped" ELSE stopped
    /\ inflight' = inflight (-) SetToBag({c})
    /\ ev' = Quiet("stop")
    /\ UNCHANGED <<request, phase, paginator, buttons, selectors, message, limit,
                   rendered>>

\* the inactivity timeout: the library finishes the view and runs on_timeout,
\* which awaits self.message.edit(view=None)
on_timeout ==
    /\ phase = "live"
    /\ stopped = "pending"
    /\ stopped' = "timed_out"
    /\ inflight' = inflight (+) SetToBag({Suspended("timeout", "edit", 0, MainOption,
                                              <<>>, NoView)})
    /\ ev' = Quiet("-")
    /\ UNCHANGED <<request, phase, paginator, buttons, selectors, message, limit,
                   rendered>>

Next ==
    \/ send_bot_help
    \/ send_cog_help
    \/ send_group_help
    \/ message_sent
    \/ \E user \in Users : press_first_page(user)
    \/ \E user \in Users : press_prev_page(user)
    \/ \E user \in Users : press_next_page(user)
    \/ \E user \in Users : press_last_page(user)
    \/ \E user \in Users : remove(user)
    \/ \E user \in Users : \E k \in DOMAIN selectors : \E option \in Picks(selectors[k]) :
          CategorySelect_chosen(user, k, option)
    \/ \E user \in Users : \E k \in DOMAIN selectors : \E option \in Picks(selectors[k]) :
          CommandSelect_chosen(user, k, option)
    \/ \E c \in {x \in BagToSet(inflight) : x.pc = "defer"} : CategorySelect_callback(c)
    \/ \E c \in {x \in BagToSet(inflight) : x.pc = "defer"} : CommandSelect_callback(c)
    \/ \E c \in BagToSet(inflight) : edit_lands(c)
    \/ \E c \in BagToSet(inflight) : stop(c)
    \/ on_timeout

Spec == Init /\ [][Next]_vars

SpecSerial == InitSerial /\ [][Next]_vars

(***************************************************************************)
(* Properties                                                              *)
(***************************************************************************)
Sent == phase \in {"sending", "live"}
NavStep(act) == ev'.act = act /\ ev'.user = Author
SameCursor == paginator'.idx = paginator.idx /\ paginator'.n_pages = paginator.n_pages

\* C1: with n_pages >= 1 the cursor is always within [0, n_pages-1], and
\* previous at cursor 0 and next at the last page leave the cursor where it is.
C1_CursorClamped ==
    /\ [](paginator.n_pages >= 1 => paginator.idx \in 0..(paginator.n_pages - 1))
    /\ [][(paginator.n_pages >= 1 /\ NavStep("prev_page") /\ paginator.idx = 0)
            => SameCursor]_vars
    /\ [][(paginator.n_pages >= 1 /\ NavStep("next_page")
            /\ paginator.idx = paginator.n_pages - 1) => SameCursor]_vars

\* previous ran at cursor 0 of a paginator of several pages
C1_Witness ==
    /\ ev.act = "prev_page" /\ ev.user = Author /\ ev.edge
    /\ paginator.n_pages >= 2 /\ paginator.idx = 0

ButtonsFollowCursor ==
    /\ buttons.first_page = is_first(paginator)
    /\ buttons.prev_page = is_first(paginator)
    /\ buttons.next_page = is_last(paginator)
    /\ buttons.last_page = is_last(paginator)

\* C3: while the session is live the button states are those the cursor
\* implies: first and back disabled iff on the first page, next and last
\* disabled iff on the last page.
C3_ButtonsFollowCursor ==
    (phase = "live" /\ stopped = "pending" /\ paginator.n_pages >= 1)
        => ButtonsFollowCursor

\* C4: right after construction all four buttons are disabled unless the
\* paginator has more than one page, and then first/back are disabled and
\* next/last enabled.
C4_InitialButtons ==
    phase = "sending" =>
        buttons = IF paginator.n_pages > 1 THEN reset_buttons ELSE disable_buttons

TeardownInFlight(item) == \E c \in BagToSet(inflight) : c.item = item

TimedOut == stopped = "timed_out" /\ ~TeardownInFlight("timeout")

\* C5: once the timeout has fired and on_timeout has edited the message, the
\* message has no controls and keeps its content, and neither the paginator
\* (cursor, cache) nor the buttons change any more.
C5_TimeoutFinal ==
    [][(TimedOut /\ paginator.n_pages >= 1) =>
        /\ ~message.view.attached /\ ~message'.view.attached
        /\ message'.embed = message.embed
        /\ UNCHANGED <<paginator, buttons, stopped>>]_vars

\* the letters a selector's label should have: those of the first and of the
\* last command it holds
LabelOf(commands) == <<upper(commands[1].first), upper(commands[Len(commands)].first)>>

\* the k-th chunk of 24 of the list (k from 1)
Chunk(commands, k) ==
    [i \in 1..(Min(24 * k, Len(commands)) - 24 * (k - 1)) |-> commands[24 * (k - 1) + i]]

\* C6: a category of more than 25 commands gets one selector per chunk of 24
\* consecutive commands, labelled with the upper-cased first letters of the
\* first and of the last command of that chunk.
C6_SelectorChunks ==
    (Sent /\ request.entry = "cog" /\ Len(request.commands) > 25) =>
        /\ Len(selectors) = (Len(request.commands) + 23) \div 24
        /\ \A k \in DOMAIN selectors :
            /\ selectors[k].commands = Chunk(request.commands, k)
            /\ selectors[k].suffix = LabelOf(Chunk(request.commands, k))

\* what current() renders at cursor page of a category-detail paginator
PageAt(p, page) ==
    CogHelpPaginator_current([p EXCEPT !.idx = page, !.pages = EmptyDict]).embed.fields

Elements(seq) == {seq[i] : i \in DOMAIN seq}

\* C7: a category-detail paginator over n >= 1 commands has ceil(n/8) pages,
\* page p renders commands[8p : 8p+8] in order (cached pages included), and
\* every command is on exactly one page.
C7_CogPages ==
    (paginator.kind = "cog" /\ Len(paginator.commands) >= 1) =>
        LET n == Len(paginator.commands)
            expected(page) == [i \in 1..(Min(8 * page + 8, n) - 8 * page) |->
                                  paginator.commands[8 * page + i]]
        IN  /\ 8 * paginator.n_pages >= n /\ 8 * (paginator.n_pages - 1) < n
            /\ \A page \in 0..(paginator.n_pages - 1) : PageAt(paginator, page) = expected(page)
            /\ \A page \in DOMAIN paginator.pages :
                    paginator.pages[page].fields = expected(page)
            /\ \A i \in 1..n :
                    Cardinality({page \in 0..(paginator.n_pages - 1) :
                        paginator.commands[i] \in Elements(PageAt(paginator, page))}) = 1

\* 17 commands, all three pages visited
C7_Witness ==
    /\ paginator.kind = "cog" /\ Len(paginator.commands) = 17
    /\ DOMAIN paginator.pages = {0, 1, 2}

\* the categories of the request that have a visible command
Visible == {i \in DOMAIN request.mapping :
                request.mapping[i].cog # <<>> /\ request.mapping[i].cmds # <<>>}

Dismissed == stopped = "stopped" /\ ~TeardownInFlight("remove")

\* C10: once the session has ended (here: by the Exit button, remove having
\* run to its end) the message carries no controls and nothing of the session
\* changes, callbacks that were in flight when it ended included.
C10_EndedIsFinal ==
    [][(Dismissed /\ paginator.n_pages >= 1) =>
        /\ ~message.view.attached /\ ~message'.view.attached
        /\ UNCHANGED <<paginator, buttons, message, stopped>>]_vars


\* C11: the step of change_paginator leaves a paginator whose cursor is 0,
\* with first/back disabled and next/last enabled if it has more than one
\* page and all four disabled if it has exactly one, whatever cursor and
\* buttons the session had before.
C11_SwapResets ==
    [][ev'.act = "change_paginator" =>
        /\ paginator'.idx = 0
        /\ paginator'.n_pages > 1 => buttons' = reset_buttons
        /\ paginator'.n_pages = 1 => buttons' = disable_buttons]_vars

\* a paginator of several pages was swapped in while the message still shows
\* the buttons of a cursor that had left the first page
C11_Witness ==
    /\ ev.act = "change_paginator"
    /\ paginator.n_pages > 1 /\ paginator.idx = 0 /\ buttons = reset_buttons
    /\ ~message.view.buttons.first_page

\* callbacks of selectors suspended at pc
SelectsAt(bag, pc) ==
    BagCardinality([c \in {x \in BagToSet(bag) : x.item = "select" /\ x.pc = pc}
                        |-> CopiesIn(c, bag)])

\* C12: a selection is acknowledged before it changes anything: the step
\* that takes a selection up to its defer leaves paginator, buttons and
\* message alone; the paginator is replaced only by a callback that has
\* passed its defer; and a selector's message edit is issued only by the
\* step that replaced the paginator, and lands in a later step.
C12_AckThenMutate ==
    /\ [][SelectsAt(inflight', "defer") > SelectsAt(inflight, "defer")
            => UNCHANGED <<paginator, buttons, message>>]_vars
    /\ [][ev'.act = "change_paginator" =>
            /\ SelectsAt(inflight', "defer") = SelectsAt(inflight, "defer") - 1
            /\ SelectsAt(inflight', "edit") = SelectsAt(inflight, "edit") + 1
            /\ message' = message]_vars
    /\ [][SelectsAt(inflight', "edit") > SelectsAt(inflight, "edit")
            => ev'.act = "change_paginator"]_vars
    /\ [][SelectsAt(inflight', "edit") < SelectsAt(inflight, "edit")
            => UNCHANGED <<paginator, buttons>>]_vars

\* a category was chosen in the category selector: acknowledged, the
\* paginator replaced, the edit not yet arrived
C12_Witness ==
    /\ ev.act = "change_paginator" /\ request.entry = "bot" /\ paginator.kind = "cog"
    /\ SelectsAt(inflight, "edit") = 1 /\ SelectsAt(inflight, "defer") = 0
    /\ message.embed # <<current(paginator).embed>>

\* a step of remove or on_timeout past its first await: its edit arrives,
\* or its self.stop() runs
TeardownStep ==
    \E c \in BagToSet(inflight) :
        /\ c.item \in {"remove", "timeout"}
        /\ CopiesIn(c, inflight') < CopiesIn(c, inflight)

\* C13: on a session that has ended, by the Exit button or by the timeout, a
\* further step of remove or of on_timeout changes neither the paginator,
\* the buttons, the end state nor the message's content, never puts controls
\* on the message (a message without controls stays without), and no second
\* timeout fires.
C13_TeardownIdempotent ==
    /\ [][(stopped # "pending" /\ TeardownStep) =>
            /\ UNCHANGED <<paginator, buttons, stopped, rendered>>
            /\ message'.embed = message.embed
            /\ ~message.view.attached => ~message'.view.attached]_vars
    /\ [][stopped # "pending" =>
            BagCardinality([c \in {x \in BagToSet(inflight') : x.item = "timeout"}
                                |-> CopiesIn(c, inflight')])
              <= BagCardinality([c \in {x \in BagToSet(inflight) : x.item = "timeout"}
                                    |-> CopiesIn(c, inflight)])]_vars

\* the self.stop() of remove ran on a session the timeout had already ended
\* and whose message on_timeout had already cleared
C13_Witness ==
    /\ ev.act = "stop" /\ stopped = "timed_out"
    /\ ~TeardownInFlight("timeout") /\ ~message.view.attached

Quiescent == phase = "live" /\ stopped = "pending" /\ inflight = EmptyBag

\* C14: when no callback is in flight on a live session, the message shows
\* the page at the active paginator's cursor and the view's button states,
\* also after callbacks of several interactions have interleaved.
C14_MessageShowsState ==
    (Quiescent /\ paginator.n_pages >= 1) =>
        /\ message.embed = <<current(paginator).embed>>
        /\ message.view = ViewOf(buttons)

\* C15: every paginator an entry point or a selector callback makes the
\* active one has at least one page, its cursor is a page index, and no
\* enabled button can move the cursor out of [0, n_pages-1].
C15_AtLeastOnePage ==
    phase # "start" =>
        /\ paginator.n_pages >= 1
        /\ paginator.idx \in 0..(paginator.n_pages - 1)
        /\ ~buttons.next_page => next(paginator).idx \in 0..(paginator.n_pages - 1)
        /\ ~buttons.last_page => last(paginator).idx \in 0..(paginator.n_pages - 1)

\* C16: no selector of a session has more than 25 options, the synthetic
\* option counted.
C16_OptionsBounded ==
    phase # "start" =>
        \A k \in DOMAIN selectors : Len(options(selectors[k])) <= SELECT_MAX_VALUES

\* C17: in a one-category session, the paginator the synthetic option of a
\* command selector installs is a category-detail paginator over the full
\* command list of the request, with as many pages as the one the session
\* was opened with.
C17_ReturnToCategory ==
    (request.entry = "cog" /\ ev.act = "change_paginator" /\ paginator.kind = "cog") =>
        /\ paginator.commands = request.commands
        /\ paginator.n_pages = CogHelpPaginator(<<"cog", 1>>, request.commands).n_pages

=============================================================================
